---- MODULE Spec2Model ----
(***************************************************************************)
(* A model of DCGAN-Generator-Discriminator-Starter.ipynb: the ConvBlock,  *)
(* Discriminator, DeconvBlock and Generator modules and the notebook cells *)
(* that construct them and run their forward passes.                       *)
(*                                                                         *)
(* A tensor is abstracted to its shape (a sequence of dimension sizes) and *)
(* to the set of value zones its elements may lie in.  Every torch layer   *)
(* is modelled by its shape rule, the shape errors it raises, and its      *)
(* effect on the value zones.  Modules are in training mode, the mode a    *)
(* freshly constructed nn.Module is in (the notebook never calls eval()).  *)
(***************************************************************************)
EXTENDS Integers, Sequences, FiniteSets

VARIABLES
    discriminator,  \* the notebook global `discriminator` (NoModule before its cell runs)
    generator,      \* the notebook global `generator`
    pc,             \* "idle", "forward", "returned" or "raised"
    self,           \* the module whose forward is running: "discriminator", "generator", "none"
    caller,         \* "cell" for a direct call, "check_generator" for the test helper
    arg,            \* the tensor the forward pass was called with
    x,              \* forward's local x
    stmt,           \* index of the next statement of forward
    executed,       \* the statements of forward entered so far, in order
    raised,         \* the exception that ended the pass (NoTensor if none)
    out,            \* the tensor forward returned (NoTensor if none)
    test            \* outcome of check_generator: "none", "passed", "AssertionError", "error"

vars == <<discriminator, generator, pc, self, caller, arg, x, stmt, executed, raised, out, test>>

\* ------------------------------------------------------------------ bounds

\* Batch sizes 1..MaxBatch are tried, besides the test helper's batch size.
MaxBatch == 3

\* batch_size of tests.check_generator (traceback, tests.py line 14).
TestBatchSize == 16

\* image_res expected by tests.check_generator (the 32x32 images of the exercise).
ImageRes == 32

\* out_features of Generator.fc1 and num_features of Generator.norm1.
FcFeatures == 8192

BatchSizes == (1..MaxBatch) \cup {TestBatchSize}

\* conv_dim arguments tried (32 is Generator's default, 64 the notebook's Discriminator(64)).
ConvDims == {32, 64}

\* latent_dim arguments and latent widths tried (128 is the notebook's).
LatentDims == {1, 128}

\* Spatial sizes of the images handed to the discriminator.
ImageSizes == {16, 32, 39, 64}

\* ------------------------------------------------------------ value zones

\* x < -1,  -1 <= x < 0,  x = 0,  0 < x <= 1,  x > 1
Zones == {"lt_m1", "m1_0", "zero", "0_1", "gt_1"}

\* [-1, 1]
UnitSym == {"m1_0", "zero", "0_1"}

\* [0, 1]
Unit == {"zero", "0_1"}

\* ---------------------------------------------------------------- tensors

Tensor(shape, vals) == [ok |-> TRUE, shape |-> shape, vals |-> vals, err |-> ""]

\* The outcome of an operation that raised instead of returning a tensor.
Raise(msg) == [ok |-> FALSE, shape |-> <<>>, vals |-> {}, err |-> msg]

NoTensor == [ok |-> FALSE, shape |-> <<>>, vals |-> {}, err |-> "none"]

RECURSIVE Prod(_)
Prod(s) == IF s = <<>> THEN 1 ELSE Head(s) * Prod(Tail(s))

\* Values after an affine map with free (learnable) weights: anything.
Affine(vals) == IF vals = {} THEN {} ELSE Zones

\* F.batch_norm's _verify_batch_size in training mode.
MoreThanOneValuePerChannel(shape) ==
    shape[1] * Prod(SubSeq(shape, 3, Len(shape))) > 1

\* ----------------------------------------------------------------- layers

Conv2d(in_channels, out_channels, kernel_size, stride, padding) ==
    [op |-> "Conv2d", in_channels |-> in_channels, out_channels |-> out_channels,
     kernel_size |-> kernel_size, stride |-> stride, padding |-> padding]

ConvTranspose2d(in_channels, out_channels, kernel_size, stride, padding) ==
    [op |-> "ConvTranspose2d", in_channels |-> in_channels, out_channels |-> out_channels,
     kernel_size |-> kernel_size, stride |-> stride, padding |-> padding]

BatchNorm2d(num_features) == [op |-> "BatchNorm2d", num_features |-> num_features]

BatchNorm1d(num_features) == [op |-> "BatchNorm1d", num_features |-> num_features]

Linear(in_features, out_features) ==
    [op |-> "Linear", in_features |-> in_features, out_features |-> out_features]

LeakyReLU == [op |-> "LeakyReLU"]

Tanh == [op |-> "Tanh"]

Sigmoid == [op |-> "Sigmoid"]

Flatten == [op |-> "Flatten"]

Sequential(layers) == [op |-> "Sequential", layers |-> layers]

\* ------------------------------------------------- element-wise functions

TanhZone(z) ==
    CASE z = "lt_m1" -> {"m1_0"}
      [] z = "m1_0"  -> {"m1_0"}
      [] z = "zero"  -> {"zero"}
      [] z = "0_1"   -> {"0_1"}
      [] z = "gt_1"  -> {"0_1"}

\* 1 / (1 + exp(-x)); in floating point a very negative x gives 0.
SigmoidZone(z) ==
    CASE z \in {"lt_m1", "m1_0"} -> {"zero", "0_1"}
      [] z = "zero"              -> {"0_1"}
      [] z \in {"0_1", "gt_1"}   -> {"0_1"}

\* x if x >= 0, 0.01 * x otherwise.
LeakyReLUZone(z) ==
    CASE z = "lt_m1" -> {"lt_m1", "m1_0"}
      [] z = "m1_0"  -> {"m1_0", "zero"}
      [] OTHER       -> {z}

TanhZones(vals) == UNION {TanhZone(z) : z \in vals}

SigmoidZones(vals) == UNION {SigmoidZone(z) : z \in vals}

LeakyReLUZones(vals) == UNION {LeakyReLUZone(z) : z \in vals}

\* ------------------------------------------------------- forward of a layer

Conv2dForward(l, t) ==
    IF Len(t.shape) # 4 THEN Raise("conv2d: expected 4D input")
    ELSE IF t.shape[2] # l.in_channels THEN Raise("conv2d: channel mismatch")
    ELSE IF t.shape[3] + 2 * l.padding < l.kernel_size
            \/ t.shape[4] + 2 * l.padding < l.kernel_size
         THEN Raise("conv2d: kernel size can't be greater than actual input size")
    ELSE Tensor(<<t.shape[1], l.out_channels,
                  ((t.shape[3] + 2 * l.padding - l.kernel_size) \div l.stride) + 1,
                  ((t.shape[4] + 2 * l.padding - l.kernel_size) \div l.stride) + 1>>,
                Affine(t.vals))

ConvTranspose2dForward(l, t) ==
    IF Len(t.shape) # 4 THEN Raise("conv_transpose2d: expected 4D input")
    ELSE IF t.shape[2] # l.in_channels THEN Raise("conv_transpose2d: channel mismatch")
    ELSE Tensor(<<t.shape[1], l.out_channels,
                  (t.shape[3] - 1) * l.stride - 2 * l.padding + l.kernel_size,
                  (t.shape[4] - 1) * l.stride - 2 * l.padding + l.kernel_size>>,
                Affine(t.vals))

BatchNorm2dForward(l, t) ==
    IF Len(t.shape) # 4 THEN Raise("batch_norm2d: expected 4D input")
    ELSE IF t.shape[2] # l.num_features THEN Raise("batch_norm: num_features mismatch")
    ELSE IF ~MoreThanOneValuePerChannel(t.shape)
         THEN Raise("batch_norm: expected more than 1 value per channel when training")
    ELSE Tensor(t.shape, Affine(t.vals))

BatchNorm1dForward(l, t) ==
    IF Len(t.shape) \notin {2, 3} THEN Raise("batch_norm1d: expected 2D or 3D input")
    ELSE IF t.shape[2] # l.num_features THEN Raise("batch_norm: num_features mismatch")
    ELSE IF ~MoreThanOneValuePerChannel(t.shape)
         THEN Raise("batch_norm: expected more than 1 value per channel when training")
    ELSE Tensor(t.shape, Affine(t.vals))

LinearForward(l, t) ==
    IF Len(t.shape) = 0 \/ t.shape[Len(t.shape)] # l.in_features
    THEN Raise("linear: mat1 and mat2 shapes cannot be multiplied")
    ELSE Tensor(SubSeq(t.shape, 1, Len(t.shape) - 1) \o <<l.out_features>>,
                Affine(t.vals))

\* nn.Flatten(): start_dim = 1, end_dim = -1
FlattenForward(t) ==
    IF Len(t.shape) < 2 THEN Raise("flatten: expected a batch dimension")
    ELSE Tensor(<<t.shape[1], Prod(Tail(t.shape))>>, t.vals)

\* x.view(shape)
View(t, shape) ==
    IF Prod(t.shape) # Prod(shape) THEN Raise("view: shape is invalid for input size")
    ELSE Tensor(shape, t.vals)

RECURSIVE Forward(_, _)
RECURSIVE SequentialForward(_, _)

\* nn.Sequential.forward: each module in order; an exception ends the pass.
SequentialForward(layers, t) ==
    IF layers = <<>> THEN t
    ELSE LET r == Forward(Head(layers), t)
         IN  IF r.ok THEN SequentialForward(Tail(layers), r) ELSE r

\* module(t) for a module record m.
Forward(m, t) ==
    CASE m.op = "Conv2d"          -> Conv2dForward(m, t)
      [] m.op = "ConvTranspose2d" -> ConvTranspose2dForward(m, t)
      [] m.op = "BatchNorm2d"     -> BatchNorm2dForward(m, t)
      [] m.op = "BatchNorm1d"     -> BatchNorm1dForward(m, t)
      [] m.op = "Linear"          -> LinearForward(m, t)
      [] m.op = "Flatten"         -> FlattenForward(t)
      [] m.op = "LeakyReLU"       -> Tensor(t.shape, LeakyReLUZones(t.vals))
      [] m.op = "Tanh"            -> Tensor(t.shape, TanhZones(t.vals))
      [] m.op = "Sigmoid"         -> Tensor(t.shape, SigmoidZones(t.vals))
      [] m.op = "Sequential"      -> SequentialForward(m.layers, t)
      [] m.op \in {"ConvBlock", "DeconvBlock", "Discriminator"}
                                  -> Forward(m.model, t)

\* ---------------------------------------------------------------- modules

NoModule == [op |-> "None"]

\* A plausible slip: the stride given in both branches.
ConvBlock_stride2(in_channels, out_channels, kernel_size, batch_norm) ==
    [op |-> "ConvBlock",
     model |-> IF batch_norm
               THEN Sequential(<<Conv2d(in_channels, out_channels, kernel_size, 2, 0),
                                 BatchNorm2d(out_channels),
                                 LeakyReLU>>)
               ELSE Sequential(<<Conv2d(in_channels, out_channels, kernel_size, 2, 0),
                                 LeakyReLU>>)]

\* ConvBlock.__init__: nn.Conv2d's defaults are stride 1 and padding 0.
ConvBlock(in_channels, out_channels, kernel_size, batch_norm) ==
    [op |-> "ConvBlock",
     model |-> IF batch_norm
               THEN Sequential(<<Conv2d(in_channels, out_channels, kernel_size, 2, 0),
                                 BatchNorm2d(out_channels),
                                 LeakyReLU>>)
               ELSE Sequential(<<Conv2d(in_channels, out_channels, kernel_size, 1, 0),
                                 LeakyReLU>>)]

\* A plausible slip: the model ends at the linear layer, as the exercise text asks.
Discriminator_logit(conv_dim) ==
    [op |-> "Discriminator",
     args |-> <<conv_dim>>,
     model |-> Sequential(<<ConvBlock(3, 32, 4, FALSE),
                            ConvBlock(32, 64, 3, TRUE),
                            ConvBlock(64, 128, 4, TRUE),
                            ConvBlock(128, 256, 4, TRUE),
                            Flatten,
                            Linear(1024, 1)>>)]

\* Discriminator.__init__.  args records the constructor's arguments (the
\* object itself keeps no copy of conv_dim).
Discriminator(conv_dim) ==
    [op |-> "Discriminator",
     args |-> <<conv_dim>>,
     model |-> Sequential(<<ConvBlock(3, 32, 4, FALSE),
                            ConvBlock(32, 64, 3, TRUE),
                            ConvBlock(64, 128, 4, TRUE),
                            ConvBlock(128, 256, 4, TRUE),
                            Flatten,
                            Linear(1024, 1),
                            Sigmoid>>)]

\* Discriminator.forward
Discriminator_forward(d, t) == Forward(d.model, t)

\* A plausible slip: the same activation in both branches.
DeconvBlock_lrelu(in_channels, out_channels, kernel_size, stride, padding, batch_norm) ==
    [op |-> "DeconvBlock",
     model |-> IF batch_norm
               THEN Sequential(<<ConvTranspose2d(in_channels, out_channels, kernel_size, 2, padding),
                                 BatchNorm2d(out_channels),
                                 LeakyReLU>>)
               ELSE Sequential(<<ConvTranspose2d(in_channels, out_channels, kernel_size, 2, padding),
                                 LeakyReLU>>)]

\* DeconvBlock.__init__: both branches pass stride = 2 to nn.ConvTranspose2d.
DeconvBlock(in_channels, out_channels, kernel_size, stride, padding, batch_norm) ==
    [op |-> "DeconvBlock",
     model |-> IF batch_norm
               THEN Sequential(<<ConvTranspose2d(in_channels, out_channels, kernel_size, 2, padding),
                                 BatchNorm2d(out_channels),
                                 LeakyReLU>>)
               ELSE Sequential(<<ConvTranspose2d(in_channels, out_channels, kernel_size, 2, padding),
                                 Tanh>>)]

\* The arguments Generator.__init__ gives tconv1..tconv6:
\* <<in_channels, out_channels, kernel_size, stride, padding, batch_norm>>
TconvArgs ==
    << <<512, 256, 4, 2, 0, TRUE>>,
       <<256, 128, 4, 2, 0, TRUE>>,
       <<128,  64, 4, 1, 0, TRUE>>,
       << 64,  32, 4, 1, 0, TRUE>>,
       << 32,  16, 4, 1, 0, TRUE>>,
       << 16,   3, 4, 1, 1, FALSE>> >>

Tconv(i) ==
    DeconvBlock(TconvArgs[i][1], TconvArgs[i][2], TconvArgs[i][3],
                TconvArgs[i][4], TconvArgs[i][5], TconvArgs[i][6])

TconvNames == <<"tconv1", "tconv2", "tconv3", "tconv4", "tconv5", "tconv6">>

\* Generator.__init__.  args records the constructor's arguments.
Generator(latent_dim, conv_dim) ==
    [op |-> "Generator",
     args |-> <<latent_dim, conv_dim>>,
     fc1 |-> Linear(latent_dim, FcFeatures),
     norm1 |-> BatchNorm1d(FcFeatures),
     lrelu |-> LeakyReLU,
     tconv1 |-> Tconv(1),
     tconv2 |-> Tconv(2),
     tconv3 |-> Tconv(3),
     tconv4 |-> Tconv(4),
     tconv5 |-> Tconv(5),
     tconv6 |-> Tconv(6)]

\* The statements of Generator.forward before its return, in order.
GeneratorStmts == <<"fc1", "norm1", "lrelu", "view">> \o TconvNames

\* The statements of Discriminator.forward before its return.
DiscriminatorStmts == <<"model">>

\* A plausible slip: the latent is flattened to (B, -1) before fc1.
Generator_forward_flat(g, name, t) ==
    CASE name = "fc1"  -> LET f == FlattenForward(t)
                          IN  IF f.ok THEN Forward(g.fc1, f) ELSE f
      [] name = "view" -> View(t, <<t.shape[1], 512, 4, 4>>)
      [] OTHER         -> Forward(g[name], t)

\* One statement of Generator.forward applied to the local x.
Generator_forward(g, name, t) ==
    CASE name = "view" -> View(t, <<t.shape[1], 512, 4, 4>>)
      [] OTHER         -> Forward(g[name], t)

Stmts(m) == IF m = "generator" THEN GeneratorStmts ELSE DiscriminatorStmts

\* ------------------------------------------------------------ state machine

Init ==
    /\ discriminator = NoModule
    /\ generator = NoModule
    /\ pc = "idle"
    /\ self = "none"
    /\ caller = "cell"
    /\ arg = NoTensor
    /\ x = NoTensor
    /\ stmt = 1
    /\ executed = <<>>
    /\ raised = NoTensor
    /\ out = NoTensor
    /\ test = "none"

\* discriminator = Discriminator(conv_dim)
NewDiscriminator ==
    /\ pc = "idle"
    /\ \E conv_dim \in ConvDims : discriminator' = Discriminator(conv_dim)
    /\ UNCHANGED <<generator, pc, self, caller, arg, x, stmt, executed, raised, out, test>>

\* generator = Generator(latent_dim[, conv_dim])
NewGenerator ==
    /\ pc = "idle"
    /\ \E latent_dim \in LatentDims, conv_dim \in ConvDims :
          generator' = Generator(latent_dim, conv_dim)
    /\ UNCHANGED <<discriminator, pc, self, caller, arg, x, stmt, executed, raised, out, test>>

Enter(m, who, t) ==
    /\ pc' = "forward"
    /\ self' = m
    /\ caller' = who
    /\ arg' = t
    /\ x' = t
    /\ stmt' = 1
    /\ executed' = <<>>
    /\ raised' = NoTensor
    /\ out' = NoTensor
    /\ test' = "none"
    /\ UNCHANGED <<discriminator, generator>>

\* discriminator(images): a batch of 3-channel square images.
CallDiscriminator ==
    /\ pc = "idle"
    /\ discriminator # NoModule
    /\ \E B \in BatchSizes, res \in ImageSizes, vals \in {UnitSym, Zones} :
          Enter("discriminator", "cell", Tensor(<<B, 3, res, res>>, vals))

\* generator(z): a latent batch, (B, L) or (B, L, 1, 1), drawn by torch.randn.
CallGenerator ==
    /\ pc = "idle"
    /\ generator # NoModule
    /\ \E B \in BatchSizes, L \in LatentDims :
          \E shape \in {<<B, L>>, <<B, L, 1, 1>>} :
             Enter("generator", "cell", Tensor(shape, Zones))

\* tests.check_generator(generator, latent_dim): builds the latent batch and calls the model.
check_generator ==
    /\ pc = "idle"
    /\ generator # NoModule
    /\ \E latent_dim \in LatentDims :
          Enter("generator", "check_generator",
                Tensor(<<TestBatchSize, latent_dim, 1, 1>>, Zones))

\* The outcome of the statement forward is about to run.
StmtResult ==
    IF self = "generator"
    THEN Generator_forward(generator, Stmts(self)[stmt], x)
    ELSE Discriminator_forward(discriminator, x)

\* A statement of forward completes and assigns x.
ForwardStep ==
    /\ pc = "forward"
    /\ stmt <= Len(Stmts(self))
    /\ StmtResult.ok
    /\ x' = StmtResult
    /\ stmt' = stmt + 1
    /\ executed' = Append(executed, Stmts(self)[stmt])
    /\ UNCHANGED <<discriminator, generator, pc, self, caller, arg, raised, out, test>>

\* A statement of forward raises; nothing in the modules catches it.
ForwardRaise ==
    /\ pc = "forward"
    /\ stmt <= Len(Stmts(self))
    /\ ~StmtResult.ok
    /\ raised' = StmtResult
    /\ pc' = "raised"
    /\ executed' = Append(executed, Stmts(self)[stmt])
    /\ test' = IF caller = "check_generator" THEN "error" ELSE test
    /\ UNCHANGED <<discriminator, generator, self, caller, arg, x, stmt, out>>

\* return x; check_generator then asserts the shape of what came back.
Return ==
    /\ pc = "forward"
    /\ stmt = Len(Stmts(self)) + 1
    /\ out' = x
    /\ pc' = "returned"
    /\ test' = IF caller = "check_generator"
               THEN IF x.shape = <<TestBatchSize, 3, ImageRes, ImageRes>>
                    THEN "passed" ELSE "AssertionError"
               ELSE test
    /\ UNCHANGED <<discriminator, generator, self, caller, arg, x, stmt, executed, raised>>

\* The cell has ended (normally or with the traceback); the next one may run.
NextCell ==
    /\ pc \in {"returned", "raised"}
    /\ pc' = "idle"
    /\ self' = "none"
    /\ caller' = "cell"
    /\ arg' = NoTensor
    /\ x' = NoTensor
    /\ stmt' = 1
    /\ executed' = <<>>
    /\ raised' = NoTensor
    /\ out' = NoTensor
    /\ test' = "none"
    /\ UNCHANGED <<discriminator, generator>>

Next ==
    \/ NewDiscriminator
    \/ NewGenerator
    \/ CallDiscriminator
    \/ CallGenerator
    \/ check_generator
    \/ ForwardStep
    \/ ForwardRaise
    \/ Return
    \/ NextCell

Spec == Init /\ [][Next]_vars

\* ------------------------------------------------- observers for the claims

RECURSIVE Convs(_)
RECURSIVE ConvsOfAll(_)

\* The convolution / transpose-convolution layers of a module, in order.
Convs(m) ==
    CASE m.op \in {"Conv2d", "ConvTranspose2d"} -> <<m>>
      [] m.op = "Sequential" -> ConvsOfAll(m.layers)
      [] m.op \in {"ConvBlock", "DeconvBlock", "Discriminator"} -> Convs(m.model)
      [] m.op = "Generator" -> ConvsOfAll([i \in 1..Len(TconvNames) |-> m[TconvNames[i]]])
      [] OTHER -> <<>>

ConvsOfAll(ms) == IF ms = <<>> THEN <<>> ELSE Convs(Head(ms)) \o ConvsOfAll(Tail(ms))

\* <<in_channels, out_channels>> of each convolution of a module.
Channels(m) ==
    [i \in 1..Len(Convs(m)) |-> <<Convs(m)[i].in_channels, Convs(m)[i].out_channels>>]

IsNorm(l) == l.op = "BatchNorm2d"

IsNotNorm(l) == l.op # "BatchNorm2d"

\* The layers of a block, the batch norm left out.
WithoutNorm(b) == SelectSeq(b.model.layers, IsNotNorm)

\* The block the same constructor call builds with batch_norm = bn.
Rebuilt(b, bn) ==
    LET c == b.model.layers[1]
    IN  IF b.op = "ConvBlock"
        THEN ConvBlock(c.in_channels, c.out_channels, c.kernel_size, bn)
        ELSE DeconvBlock(c.in_channels, c.out_channels, c.kernel_size, c.stride, c.padding, bn)

\* The ConvBlocks and DeconvBlocks of the constructed modules.
Blocks ==
    (IF discriminator = NoModule THEN {}
     ELSE {discriminator.model.layers[i] : i \in 1..4})
    \cup
    (IF generator = NoModule THEN {}
     ELSE {generator[TconvNames[i]] : i \in 1..Len(TconvNames)})

Finished == pc \in {"returned", "raised"}

\* The running call is discriminator(x) with x of shape (B, 3, 32, 32).
OnImageBatch ==
    /\ self = "discriminator"
    /\ arg.shape = <<arg.shape[1], 3, ImageRes, ImageRes>>

\* The running call is generator(z) with z of shape (B, latent_dim).
OnLatent2D ==
    /\ self = "generator"
    /\ arg.shape = <<arg.shape[1], generator.args[1]>>

\* The running call is generator(z) with z of shape (B, latent_dim, 1, 1).
OnLatent4D ==
    /\ self = "generator"
    /\ arg.shape = <<arg.shape[1], generator.args[1], 1, 1>>

\* ------------------------------------------------------------------ claims

\* C1: for every batch size B >= 1 and every conv_dim, the Discriminator's
\* forward pass on an input of shape (B, 3, 32, 32) raises no shape error and
\* returns a tensor of shape (B, 1).
C1_DiscriminatorShape ==
    (OnImageBatch /\ executed # <<>>) =>
        /\ pc # "raised"
        /\ x.shape = <<arg.shape[1], 1>>
        /\ pc = "returned" => out.ok /\ out.shape = <<arg.shape[1], 1>>

C1_Witness ==
    /\ OnImageBatch
    /\ pc = "returned"
    /\ arg.shape[1] = TestBatchSize
    /\ out.shape = <<TestBatchSize, 1>>

\* C2: for every batch size B and latent dimension L, Generator(L) applied to
\* a latent of shape (B, L) returns a tensor of shape (B, 3, 32, 32).
C2_GeneratorShape ==
    (OnLatent2D /\ pc = "returned") => out.shape = <<arg.shape[1], 3, ImageRes, ImageRes>>

\* C3: the generator check of the test harness passes: for the latent batch
\* of shape (16, 128, 1, 1) Generator(128).forward returns shape (16, 3, 32, 32).
C3_CheckGeneratorPasses ==
    (caller = "check_generator" /\ OnLatent4D /\ arg.shape[2] = 128 /\ Finished) =>
        /\ test = "passed"
        /\ out.shape = <<TestBatchSize, 3, ImageRes, ImageRes>>

\* C4: every element of the Generator's output lies in [-1, 1] whenever
\* forward completes: the last layer on the path to the output is Tanh.
C4_GeneratorRange ==
    /\ generator # NoModule =>
          generator.tconv6.model.layers[Len(generator.tconv6.model.layers)] = Tanh
    /\ (self = "generator" /\ pc = "returned") => out.ok /\ out.vals \subseteq UnitSym

C4_Witness ==
    /\ self = "generator"
    /\ pc = "returned"
    /\ out.vals = UnitSym
    /\ executed = GeneratorStmts

C6_DiscriminatorLogit ==
    discriminator # NoModule =>
        /\ discriminator.model.layers[Len(discriminator.model.layers)].op = "Linear"
        /\ \A i \in 1..Len(discriminator.model.layers) :
              discriminator.model.layers[i].op # "Sigmoid"

C8_ConvDimControlsFilters ==
    [][ /\ (discriminator # NoModule /\ discriminator' # NoModule
            /\ discriminator'.args[1] # discriminator.args[1])
           => Channels(discriminator') # Channels(discriminator)
        /\ (generator # NoModule /\ generator' # NoModule
            /\ generator'.args[2] # generator.args[2])
           => Channels(generator') # Channels(generator) ]_vars

\* C9: a DeconvBlock's transpose convolution uses the stride passed to the
\* block: tconv1, tconv2 apply stride 2 and tconv3..tconv6 apply stride 1.
C9_StridePassed ==
    generator # NoModule =>
        \A i \in 1..Len(TconvNames) :
            Convs(generator[TconvNames[i]])[1].stride = TconvArgs[i][4]

\* C10: in ConvBlock and DeconvBlock the batch_norm flag decides only whether
\* a BatchNorm2d sits between the convolution and the activation: the
\* convolution and the activation are the same for batch_norm True and False,
\* and with the norm the order is convolution, batch norm, activation.
C10_BatchNormFlagOnly ==
    \A b \in Blocks :
        /\ WithoutNorm(Rebuilt(b, TRUE)) = WithoutNorm(Rebuilt(b, FALSE))
        /\ Len(Rebuilt(b, TRUE).model.layers) = 3
        /\ IsNorm(Rebuilt(b, TRUE).model.layers[2])
        /\ Rebuilt(b, TRUE).model.layers[1].op \in {"Conv2d", "ConvTranspose2d"}
        /\ Rebuilt(b, TRUE).model.layers[3].op \in {"LeakyReLU", "Tanh"}

====
